---- MODULE Spec2Model ----
(***************************************************************************)
(* Adaptive retrieval-and-response orchestration engine of the chatbot     *)
(* (query classifier, conversation memory, namespace router, retrieval,    *)
(* response synthesizer) and the Next.js chat route that wraps it.         *)
(*                                                                         *)
(* Text is modelled as a sequence of word tokens; a regular expression of  *)
(* the source becomes a predicate over the token sequence.  Similarity     *)
(* scores are integers in hundredths (0.25 is 25).                         *)
(***************************************************************************)
EXTENDS Integers, Sequences, FiniteSets, TLC

\* ------------------------------------------------------------------------
\* Bounds of the model
\* ------------------------------------------------------------------------
HistoryCapacity == 2      \* entries kept per conversation history
ContextWindow == 1        \* most recent entries used to build follow-up context
MaxCandidates == 2        \* candidates one vector-search answer may hold

MaxSessions == 2          \* chat sessions the backend ever creates
MaxExchanges == 1         \* messages answered per chat session
MaxCalls == 2             \* handler calls of a chat view in flight

Procs == {1, 2}           \* concurrent process_query invocations
Threads == {"t1", "t2"}   \* thread identifiers of callers

\* ------------------------------------------------------------------------
\* Query texts
\* ------------------------------------------------------------------------
QHi == <<"Hi">>
QBye == <<"bye">>
QWhatIs == <<"what", "is", "formative", "assessment">>
QHowDo == <<"how", "do", "i", "implement", "it">>
QMore == <<"more", "on", "that">>
QCompare == <<"compare", "preschool", "strategy">>
QEmpty == << >>
QBlank == <<" ">>
QDaily == <<"daily", "routine", "high">>
QWhatIsDaily == <<"what", "is", "a", "daily", "routine">>

Queries ==
    {QHi, QBye, QWhatIs, QHowDo, QMore, QCompare, QEmpty, QDaily, QWhatIsDaily}

\* query.lower() on one token
LowerToken(w) == IF w = "Hi" THEN "hi" ELSE w

\* query.lower() on a text
Lower(q) == [i \in 1..Len(q) |-> LowerToken(q[i])]

\* query.strip(): text without surrounding blanks
Trim(q) == SelectSeq(q, LAMBDA w : w # " ")

\* substring test "keyword in text" for a one-word keyword
Contains(q, w) == \E i \in 1..Len(q) : q[i] = w

\* ------------------------------------------------------------------------
\* Query classifier
\* ------------------------------------------------------------------------
\* r'^(hi|hello|hey|hiya|hii+|helloo+)$'
GreetingPattern(q) == Len(q) = 1 /\ q[1] \in {"hi", "hello", "hey", "hiya"}

\* r'^(bye|goodbye|see you|farewell|cya|see ya)$'
GoodbyePattern(q) ==
    \/ Len(q) = 1 /\ q[1] \in {"bye", "goodbye", "farewell", "cya"}
    \/ Len(q) = 2 /\ q[1] = "see" /\ q[2] \in {"you", "ya"}

\* a pattern of the 'personal' category, one of the categories whose
\* patterns the source elides: it accepts "daily routine high"
PersonalPattern(q) ==
    \E i \in 1..(Len(q) - 1) : q[i] = "daily" /\ q[i + 1] = "routine"

\* casual_patterns: category -> canned responses, in declaration order
CasualCategories == <<"greeting", "goodbye", "personal">>

CasualResponses(cat) ==
    IF cat = "greeting" THEN {"greeting_response_1", "greeting_response_2"}
    ELSE IF cat = "goodbye" THEN {"goodbye_response_1", "goodbye_response_2"}
    ELSE IF cat = "personal" THEN {"personal_response_1"}
    ELSE {}

CasualMatches(cat, q) ==
    IF cat = "greeting" THEN GreetingPattern(q)
    ELSE IF cat = "goodbye" THEN GoodbyePattern(q)
    ELSE IF cat = "personal" THEN PersonalPattern(q)
    ELSE FALSE

\* _is_independent_educational_question
\*   r'^what is [a-z]', r'^how (do|does|can|should)', r'^explain [a-z]'
IsIndependentEducationalQuestion(q) ==
    LET query_lower == Lower(q) IN
    \/ Len(query_lower) >= 3 /\ query_lower[1] = "what" /\ query_lower[2] = "is"
    \/ Len(query_lower) >= 2 /\ query_lower[1] = "how"
         /\ query_lower[2] \in {"do", "does", "can", "should"}
    \/ Len(query_lower) >= 2 /\ query_lower[1] = "explain"

\* _is_casual_conversation matching the text as typed, without lowercasing
IsCasualConversationAsTyped(q) ==
    LET hits == {i \in 1..Len(CasualCategories) :
                    CasualMatches(CasualCategories[i], q)}
    IN  IF hits = {} \/ IsIndependentEducationalQuestion(q)
        THEN "none"
        ELSE CasualCategories[CHOOSE i \in hits : \A j \in hits : i <= j]

\* _is_casual_conversation accepting every pattern match
IsCasualConversationNoOverride(q) ==
    LET query_lower == Lower(q)
        hits == {i \in 1..Len(CasualCategories) :
                    CasualMatches(CasualCategories[i], query_lower)}
    IN  IF hits = {}
        THEN "none"
        ELSE CasualCategories[CHOOSE i \in hits : \A j \in hits : i <= j]

\* _is_casual_conversation: the first matching category, "none" otherwise
IsCasualConversation(q) ==
    LET query_lower == Lower(q)
        hits == {i \in 1..Len(CasualCategories) :
                    CasualMatches(CasualCategories[i], query_lower)}
    IN  IF hits = {} \/ IsIndependentEducationalQuestion(q)
        THEN "none"
        ELSE CasualCategories[CHOOSE i \in hits : \A j \in hits : i <= j]

\* simple_patterns of _classify_query_complexity
SimplePattern(q) ==
    \E i \in 1..Len(q) :
        \/ q[i] \in {"is", "are", "can", "will", "when", "where",
                     "yes", "no", "true", "false",
                     "holiday", "date", "time", "schedule"}
        \/ i < Len(q) /\ q[i] = "what" /\ q[i + 1] = "time"

\* complex_patterns of _classify_query_complexity
ComplexPattern(q) ==
    \/ \E i \in 1..Len(q) :
        q[i] \in {"explain", "analyze", "compare", "evaluate",
                  "strategy", "implementation",
                  "multiple", "various", "different", "several"}
    \/ \E i \in 1..(Len(q) - 1) :
        \/ q[i] = "how" /\ q[i + 1] = "to"
        \/ q[i] = "best" /\ q[i + 1] = "practices"

\* a query matching both pattern sets classified by its simple pattern
ClassifyQueryComplexitySimpleFirst(q) ==
    LET query_lower == Lower(q) IN
    IF SimplePattern(query_lower) THEN "SIMPLE"
    ELSE IF ComplexPattern(query_lower) THEN "COMPLEX"
    ELSE "MODERATE"

\* _classify_query_complexity
ClassifyQueryComplexity(q) ==
    LET query_lower == Lower(q) IN
    IF ComplexPattern(query_lower) THEN "COMPLEX"
    ELSE IF SimplePattern(query_lower) THEN "SIMPLE"
    ELSE "MODERATE"

\* ------------------------------------------------------------------------
\* Conversation memory (single slot: conversation_memory + conversation_history)
\* ------------------------------------------------------------------------
NoThread == "none"

\* a reset with the comparison inverted: clears when the thread_id is unchanged
ResetConversationMemoryInverted(mem, hist, thread_id) ==
    IF mem.thread_id = thread_id
    THEN [memory |-> [thread_id |-> thread_id], history |-> << >>]
    ELSE [memory |-> mem, history |-> hist]

\* a reset that adopts the new thread_id but keeps the stored entries
ResetConversationMemoryKeep(mem, hist, thread_id) ==
    [memory |-> [thread_id |-> thread_id], history |-> hist]

\* a reset that never fires: the slot is left as it is
ResetConversationMemoryNever(mem, hist, thread_id) ==
    [memory |-> mem, history |-> hist]

\* _reset_conversation_memory: the slot after a call with thread_id
ResetConversationMemory(mem, hist, thread_id) ==
    IF mem.thread_id # thread_id
    THEN [memory |-> [thread_id |-> thread_id], history |-> << >>]
    ELSE [memory |-> mem, history |-> hist]

\* malformed stored state is discarded and the slot reinitialised
ReinitializeMemory(thread_id) ==
    [memory |-> [thread_id |-> thread_id], history |-> << >>]

\* the referential / continuation phrases, each a sequence of words
FollowUpPhrases ==
    {<<"it">>, <<"that">>, <<"this">>, <<"they">>, <<"them">>,
     <<"what", "about">>, <<"and", "then">>, <<"more", "on", "that">>}

\* phrase ph occurs in text q at position i
PhraseAt(q, ph, i) ==
    /\ i + Len(ph) - 1 <= Len(q)
    /\ \A k \in 1..Len(ph) : q[i + k - 1] = ph[k]

\* referential / continuation phrases found in a query
DetectedPhrases(q) ==
    LET query_lower == Lower(q) IN
    {ph \in FollowUpPhrases : \E i \in 1..Len(query_lower) : PhraseAt(query_lower, ph, i)}

\* follow-up detection on the referential phrases alone
DetectFollowUpQueryNoOverride(q) ==
    DetectedPhrases(q) # {}

\* follow-up detection with the independent-question override
DetectFollowUpQuery(q) ==
    DetectedPhrases(q) # {} /\ ~IsIndependentEducationalQuestion(q)

StopWords ==
    {"what", "is", "how", "do", "i", "it", "more", "on", "that", "about",
     "hi", "bye", "the", "to"}

\* topic keywords kept for a recorded query
TopicKeywords(q) == SelectSeq(Lower(q), LAMBDA w : w \notin StopWords)

\* the last n entries of a history
LastEntries(hist, n) ==
    IF Len(hist) <= n THEN hist ELSE SubSeq(hist, Len(hist) - n + 1, Len(hist))

RECURSIVE ContextString(_)
\* context string built from stored entries, oldest first
ContextString(entries) ==
    IF entries = << >> THEN << >>
    ELSE Head(entries).topic_keywords \o ContextString(Tail(entries))

NullContext ==
    [present |-> FALSE, detected_phrases |-> {}, previous_topic |-> << >>,
     from_threads |-> {}]

\* resolve, after the reset: augmented query, follow-up flag and context
ResolveResult(q, hist) ==
    IF DetectFollowUpQuery(q)
    THEN LET used == LastEntries(hist, ContextWindow) IN
         [augmented_query |-> ContextString(used) \o q,
          is_follow_up |-> TRUE,
          follow_up_context |->
              [present |-> TRUE,
               detected_phrases |-> DetectedPhrases(q),
               previous_topic |-> ContextString(used),
               from_threads |-> {used[i].thread : i \in 1..Len(used)}]]
    ELSE [augmented_query |-> q, is_follow_up |-> FALSE,
          follow_up_context |-> NullContext]

\* timestamp of a new entry on a two-tick clock: 1 for the first entry
\* recorded on an empty history, 2 for every later one
Timestamp(hist) == IF hist = << >> THEN 1 ELSE 2

\* a record that makes room by dropping the newest stored entry
RecordEntryEvictNewest(hist, thread_id, q) ==
    LET entry == [query |-> q, topic_keywords |-> TopicKeywords(q),
                  thread |-> thread_id, timestamp |-> Timestamp(hist)]
        grown == Append(hist, entry)
    IN  IF Len(grown) > HistoryCapacity
        THEN Append(SubSeq(hist, 1, Len(hist) - 1), entry)
        ELSE grown

\* record: append one entry, evict the oldest over capacity
RecordEntry(hist, thread_id, q) ==
    LET entry == [query |-> q, topic_keywords |-> TopicKeywords(q),
                  thread |-> thread_id, timestamp |-> Timestamp(hist)]
        grown == Append(hist, entry)
    IN  IF Len(grown) > HistoryCapacity THEN Tail(grown) ELSE grown

\* ------------------------------------------------------------------------
\* Namespace router
\* ------------------------------------------------------------------------
Namespaces == <<"k12", "preschool", "administrative">>
DefaultNamespace == "k12"

NamespaceKeywords(ns) ==
    IF ns = "preschool" THEN {"preschool", "toddler"}
    ELSE IF ns = "k12" THEN {"assessment", "formative", "curriculum"}
    ELSE {"policy", "admission"}

\* sum(1 for keyword in keywords if keyword in combined_query)
NamespaceScore(ns, combined_query) ==
    Cardinality({k \in NamespaceKeywords(ns) : Contains(combined_query, k)})

\* namespace selection taking the lowest score instead of the highest
DetermineQueryNamespaceLowest(original_query, processed_query) ==
    LET combined_query == Lower(original_query \o processed_query)
        worst == CHOOSE i \in 1..Len(Namespaces) :
                  \A j \in 1..Len(Namespaces) :
                     \/ NamespaceScore(Namespaces[i], combined_query)
                          < NamespaceScore(Namespaces[j], combined_query)
                     \/ /\ NamespaceScore(Namespaces[i], combined_query)
                             = NamespaceScore(Namespaces[j], combined_query)
                        /\ i <= j
    IN  Namespaces[worst]

\* namespace selection where the last of several best namespaces wins
DetermineQueryNamespaceLastWins(original_query, processed_query) ==
    LET combined_query == Lower(original_query \o processed_query)
        best == CHOOSE i \in 1..Len(Namespaces) :
                  \A j \in 1..Len(Namespaces) :
                     \/ NamespaceScore(Namespaces[i], combined_query)
                          > NamespaceScore(Namespaces[j], combined_query)
                     \/ /\ NamespaceScore(Namespaces[i], combined_query)
                             = NamespaceScore(Namespaces[j], combined_query)
                        /\ i >= j
    IN  IF \A i \in 1..Len(Namespaces) :
              NamespaceScore(Namespaces[i], combined_query) = 0
        THEN DefaultNamespace
        ELSE Namespaces[best]

\* _determine_query_namespace(original_query, processed_query)
DetermineQueryNamespace(original_query, processed_query) ==
    LET combined_query == Lower(original_query \o processed_query)
        best == CHOOSE i \in 1..Len(Namespaces) :
                  \A j \in 1..Len(Namespaces) :
                     \/ NamespaceScore(Namespaces[i], combined_query)
                          > NamespaceScore(Namespaces[j], combined_query)
                     \/ /\ NamespaceScore(Namespaces[i], combined_query)
                             = NamespaceScore(Namespaces[j], combined_query)
                        /\ i <= j
    IN  IF \A i \in 1..Len(Namespaces) :
              NamespaceScore(Namespaces[i], combined_query) = 0
        THEN DefaultNamespace
        ELSE Namespaces[best]

\* ------------------------------------------------------------------------
\* Retrieval engine
\* ------------------------------------------------------------------------
EDUCATIONAL_THRESHOLD == 25
TOP_K == 12
MAX_CHUNKS == 8

SIMILARITY_THRESHOLD == 15

ScoreValues == {20, 30}

\* answers of the vector search service: at most MaxCandidates candidates,
\* best first, candidate i carrying id i
VectorResponses ==
    {r \in UNION {[1..n -> ScoreValues] : n \in 0..MaxCandidates} :
        \A i \in 1..(Len(r) - 1) : r[i] >= r[i + 1]}

\* results.matches of one answer
Matches(r) ==
    [i \in 1..Len(r) |-> [id |-> i, score |-> r[i], expansion |-> FALSE]]

\* the filter letting every returned match through
EducationalChunksUnfiltered(matches) == matches

\* [chunk for chunk in results.matches if chunk.score >= EDUCATIONAL_THRESHOLD]
EducationalChunks(matches) ==
    SelectSeq(matches, LAMBDA chunk : chunk.score >= EDUCATIONAL_THRESHOLD)

RECURSIVE ExpandContextIfNeeded(_, _)
\* expand_context_if_needed: every chunk is followed by its neighbouring
\* chunk, marked as expansion, when expansion is applied
ExpandContextIfNeeded(chunks, expand) ==
    IF chunks = << >> THEN << >>
    ELSE IF expand
         THEN <<Head(chunks),
                [id |-> Head(chunks).id + 100, score |-> 0, expansion |-> TRUE]>>
              \o ExpandContextIfNeeded(Tail(chunks), expand)
         ELSE chunks

\* final_chunks[:MAX_CHUNKS]
TakeFirst(s, n) == IF Len(s) <= n THEN s ELSE SubSeq(s, 1, n)

\* advanced_educational_search on an answer of the vector search service
AdvancedEducationalSearch(r, namespace, expand) ==
    [chunks |-> TakeFirst(ExpandContextIfNeeded(
                    EducationalChunks(TakeFirst(Matches(r), TOP_K)), expand),
                    MAX_CHUNKS),
     namespace |-> namespace,
     threshold |-> EDUCATIONAL_THRESHOLD,
     degraded |-> FALSE]

\* the result when the vector search fails or times out
DegradedRetrieval(namespace) ==
    [chunks |-> << >>, namespace |-> namespace,
     threshold |-> EDUCATIONAL_THRESHOLD, degraded |-> TRUE]

NoRetrieval ==
    [chunks |-> << >>, namespace |-> "none", threshold |-> 0, degraded |-> FALSE]

\* ------------------------------------------------------------------------
\* Response synthesizer
\* ------------------------------------------------------------------------
\* every complexity served with max_tokens of LLM_CONFIG
ComplexitySettingsFlat(complexity) == 1500

\* complexity_settings[complexity]["max_tokens"]
ComplexitySettingsMaxTokens(complexity) ==
    IF complexity = "SIMPLE" THEN 300
    ELSE IF complexity = "MODERATE" THEN 600
    ELSE 1200

\* format_sources_for_display: one source per attributable chunk
FormatSourcesForDisplay(chunks) ==
    LET attributable == SelectSeq(chunks, LAMBDA chunk : ~chunk.expansion)
    IN  [i \in 1..Len(attributable) |->
            [id |-> attributable[i].id, score |-> attributable[i].score]]

RECURSIVE SumScores(_)
SumScores(sources) ==
    IF sources = << >> THEN 0 ELSE Head(sources).score + SumScores(Tail(sources))

\* calculate_confidence_score: mean of the top three scores, 0 without chunks
CalculateConfidenceScore(retrieval) ==
    LET top == TakeFirst(FormatSourcesForDisplay(retrieval.chunks), 3)
    IN  IF retrieval.degraded \/ top = << >> THEN 0
        ELSE SumScores(top) \div Len(top)


\* ------------------------------------------------------------------------
\* State
\* ------------------------------------------------------------------------
VARIABLES
    conversation_memory,    \* the slot's bookkeeping: thread_id
    conversation_history,   \* the slot's entries, oldest first
    proc,                   \* one process_query invocation per process
    last_resolve,           \* process whose resolve was the last memory operation
    route,                  \* the request the chat route is serving
    ui                      \* a chat view: its React state, the handler
                            \* calls in flight and the backend's sessions

NoResult ==
    [kind |-> "none", answer_text |-> "none", sources |-> << >>,
     confidence |-> 0, complexity_used |-> "none"]

NoResolve ==
    [augmented_query |-> << >>, is_follow_up |-> FALSE,
     follow_up_context |-> NullContext, memory_recovered |-> FALSE,
     reset |-> FALSE]

IdleProc ==
    [pc |-> "idle", thread |-> NoThread, query |-> << >>,
     casual |-> "none", complexity |-> "none",
     resolved |-> NoResolve, namespace |-> "none",
     matches |-> << >>, retrieval |-> NoRetrieval, prompt |-> "none",
     vector_calls |-> 0, gen_calls |-> 0, gen_max_tokens |-> 0,
     gen_failed |-> FALSE,
     result |-> NoResult]

CoreInit ==
    /\ conversation_memory = [thread_id |-> NoThread]
    /\ conversation_history = << >>
    /\ proc = [p \in Procs |-> IdleProc]
    /\ last_resolve = 0

\* ------------------------------------------------------------------------
\* process_query, one action per pipeline stage
\* ------------------------------------------------------------------------
\* process_query(thread_id, query_text) is entered
Receive(p, t, q) ==
    /\ proc[p].pc = "idle"
    /\ proc' = [proc EXCEPT ![p] =
                  [IdleProc EXCEPT !.pc = "RECEIVED", !.thread = t, !.query = q]]
    /\ UNCHANGED <<conversation_memory, conversation_history, last_resolve>>

\* classify: empty input is rejected with the clarification request
Classify(p) ==
    /\ proc[p].pc = "RECEIVED"
    /\ IF Trim(proc[p].query) = << >>
       THEN proc' = [proc EXCEPT ![p].pc = "REJECTED",
                       ![p].result = [NoResult EXCEPT
                           !.kind = "clarification",
                           !.answer_text = "clarification_request"]]
       ELSE LET cat == IsCasualConversation(proc[p].query) IN
            proc' = [proc EXCEPT ![p].pc = "CLASSIFIED",
                       ![p].casual = cat,
                       ![p].complexity =
                           IF cat = "none"
                           THEN ClassifyQueryComplexity(proc[p].query)
                           ELSE "none"]
    /\ UNCHANGED <<conversation_memory, conversation_history, last_resolve>>

\* a casual turn answers with a canned response of its category
CasualShortCircuit(p) ==
    /\ proc[p].pc = "CLASSIFIED"
    /\ proc[p].casual # "none"
    /\ \E response \in CasualResponses(proc[p].casual) :
         proc' = [proc EXCEPT ![p].pc = "CASUAL_SHORT_CIRCUIT",
                    ![p].result = [NoResult EXCEPT
                        !.kind = "casual", !.answer_text = response]]
    /\ UNCHANGED <<conversation_memory, conversation_history, last_resolve>>

\* resolve(thread_id, query): reset on thread change, then follow-up
\* detection; stored state found malformed is discarded first
MemoryResolve(p, memory_ok) ==
    /\ proc[p].pc = "CLASSIFIED"
    /\ proc[p].casual = "none"
    /\ LET slot == IF memory_ok
                   THEN ResetConversationMemory(conversation_memory,
                            conversation_history, proc[p].thread)
                   ELSE ReinitializeMemory(proc[p].thread)
           res == ResolveResult(proc[p].query, slot.history)
       IN  /\ conversation_memory' = slot.memory
           /\ conversation_history' = slot.history
           /\ proc' = [proc EXCEPT ![p].pc = "MEMORY_RESOLVED",
                         ![p].resolved =
                             [augmented_query |-> res.augmented_query,
                              is_follow_up |-> res.is_follow_up,
                              follow_up_context |-> res.follow_up_context,
                              memory_recovered |-> ~memory_ok,
                              reset |-> /\ memory_ok
                                        /\ conversation_history # << >>
                                        /\ slot.history = << >>]]
    /\ last_resolve' = IF memory_ok THEN p ELSE 0

\* namespace detection on the raw query, ahead of the memory
RouteBeforeResolve(p) ==
    /\ proc[p].pc = "CLASSIFIED"
    /\ proc[p].casual = "none"
    /\ proc' = [proc EXCEPT ![p].pc = "ROUTED",
                  ![p].namespace =
                      DetermineQueryNamespace(proc[p].query, proc[p].query)]
    /\ UNCHANGED <<conversation_memory, conversation_history, last_resolve>>

\* namespace detection on the enhanced query
Route(p) ==
    /\ proc[p].pc = "MEMORY_RESOLVED"
    /\ proc' = [proc EXCEPT ![p].pc = "ROUTED",
                  ![p].namespace =
                      DetermineQueryNamespace(proc[p].query,
                          proc[p].resolved.augmented_query)]
    /\ UNCHANGED <<conversation_memory, conversation_history, last_resolve>>

\* retrieve: the vector search call answers r
Retrieve(p, r, expand) ==
    /\ proc[p].pc = "ROUTED"
    /\ proc' = [proc EXCEPT ![p].pc = "RETRIEVED",
                  ![p].vector_calls = @ + 1,
                  ![p].matches = TakeFirst(Matches(r), TOP_K),
                  ![p].retrieval =
                      AdvancedEducationalSearch(r, proc[p].namespace, expand)]
    /\ UNCHANGED <<conversation_memory, conversation_history, last_resolve>>

\* retrieve: the vector search call fails or times out
RetrieveDegraded(p) ==
    /\ proc[p].pc = "ROUTED"
    /\ proc' = [proc EXCEPT ![p].pc = "RETRIEVED",
                  ![p].vector_calls = @ + 1,
                  ![p].retrieval = DegradedRetrieval(proc[p].namespace)]
    /\ UNCHANGED <<conversation_memory, conversation_history, last_resolve>>

\* a result whose confidence starts from a neutral 50 when nothing was retrieved
SynthesisResultNeutral(retrieval, complexity) ==
    [kind |-> "answer", answer_text |-> "generated_text",
     sources |-> FormatSourcesForDisplay(retrieval.chunks),
     confidence |-> IF retrieval.chunks = << >> THEN 50
                    ELSE CalculateConfidenceScore(retrieval),
     complexity_used |-> complexity]

\* enhance_response_with_metadata: the result of a generation call that answered
SynthesisResult(retrieval, complexity) ==
    [kind |-> "answer", answer_text |-> "generated_text",
     sources |-> FormatSourcesForDisplay(retrieval.chunks),
     confidence |-> CalculateConfidenceScore(retrieval),
     complexity_used |-> complexity]

\* the result when the generation call failed
FallbackResult(complexity) ==
    [kind |-> "fallback", answer_text |-> "fallback_apology",
     sources |-> << >>, confidence |-> 0, complexity_used |-> complexity]

\* synthesize that answers without a generation call when nothing was retrieved
SynthesizeSkipWithoutContext(p, generated) ==
    /\ proc[p].pc = "RETRIEVED"
    /\ proc' = [proc EXCEPT ![p].pc = "SYNTHESIZED",
                  ![p].gen_calls =
                      IF proc[p].retrieval.chunks = << >> THEN @ ELSE @ + 1,
                  ![p].gen_failed = ~generated,
                  ![p].gen_max_tokens =
                      ComplexitySettingsMaxTokens(proc[p].complexity),
                  ![p].prompt =
                      IF proc[p].retrieval.chunks = << >>
                      THEN "none" ELSE "grounded",
                  ![p].result =
                      IF generated /\ proc[p].retrieval.chunks # << >>
                      THEN SynthesisResult(proc[p].retrieval, proc[p].complexity)
                      ELSE FallbackResult(proc[p].complexity)]
    /\ UNCHANGED <<conversation_memory, conversation_history, last_resolve>>

\* synthesize: one generation call with the settings of the complexity
Synthesize(p, generated) ==
    /\ proc[p].pc = "RETRIEVED"
    /\ proc' = [proc EXCEPT ![p].pc = "SYNTHESIZED",
                  ![p].gen_calls = @ + 1,
                  ![p].gen_failed = ~generated,
                  ![p].gen_max_tokens =
                      ComplexitySettingsMaxTokens(proc[p].complexity),
                  ![p].prompt =
                      IF proc[p].retrieval.chunks = << >>
                      THEN "context_free" ELSE "grounded",
                  ![p].result =
                      IF generated
                      THEN SynthesisResult(proc[p].retrieval, proc[p].complexity)
                      ELSE FallbackResult(proc[p].complexity)]
    /\ UNCHANGED <<conversation_memory, conversation_history, last_resolve>>

\* record(thread_id, query, result), then the result is handed to the caller
Record(p) ==
    /\ proc[p].pc = "SYNTHESIZED"
    /\ conversation_history' =
          RecordEntry(conversation_history, proc[p].thread, proc[p].query)
    /\ proc' = [proc EXCEPT ![p] = IdleProc]
    /\ last_resolve' = 0
    /\ UNCHANGED conversation_memory

\* a casual or rejected turn hands its result to the caller
Return(p) ==
    /\ proc[p].pc \in {"CASUAL_SHORT_CIRCUIT", "REJECTED"}
    /\ proc' = [proc EXCEPT ![p] = IdleProc]
    /\ UNCHANGED <<conversation_memory, conversation_history, last_resolve>>

vars ==
    <<conversation_memory, conversation_history, proc, last_resolve, route, ui>>

\* currentSession: null
NoSession == 0

\* the chat route, serving no request
IdleRoute ==
    [pc |-> "idle", query |-> << >>, caught |-> "none",
     stream_caught |-> FALSE, error_called |-> FALSE,
     cancelled |-> FALSE, aborted |-> FALSE,
     backend_error |-> FALSE,
     status |-> 0, body |-> "none",
     data |-> [ai_response |-> "none", reasoning |-> "none", sources |-> << >>,
               confidence |-> 0, is_follow_up |-> FALSE,
               follow_up_context |-> NullContext],
     plan |-> << >>, out |-> << >>, controller |-> "none",
     sessionId |-> NoSession, session_source |-> "none", posted |-> << >>]

\* no handler call in this slot
NoCall ==
    [kind |-> "none", pc |-> "none", sessionId |-> NoSession,
     state |-> [currentSession |-> NoSession, sessions |-> << >>,
                messages |-> << >>],
     ok |-> FALSE, reply |-> << >>]

\* a chat view that is not mounted, in front of a backend without sessions
IdleUi ==
    [sessions |-> << >>, currentSession |-> NoSession, messages |-> << >>,
     systemReady |-> FALSE, loading |-> FALSE, isLoading |-> FALSE,
     typingStage |-> "null", animatingReasoning |-> "null",
     calls |-> [k \in 1..MaxCalls |-> NoCall],
     server |-> [sessions |-> << >>, exchanges |-> [s \in 1..MaxSessions |-> 0],
                 next_id |-> 1]]

Init == CoreInit /\ route = IdleRoute /\ ui = IdleUi

\* no other invocation is in flight
Alone(p) == \A r \in Procs \ {p} : proc[r].pc = "idle"

\* one process_query invocation at a time
Next ==
    /\ \/ \E p \in Procs, t \in Threads, q \in Queries : Alone(p) /\ Receive(p, t, q)
       \/ \E p \in Procs : Classify(p)
       \/ \E p \in Procs : CasualShortCircuit(p)
       \/ \E p \in Procs, memory_ok \in BOOLEAN : MemoryResolve(p, memory_ok)
       \/ \E p \in Procs, r \in VectorResponses, expand \in BOOLEAN :
             Retrieve(p, r, expand)
       \/ \E p \in Procs : Route(p)
       \/ \E p \in Procs : RetrieveDegraded(p)
       \/ \E p \in Procs, generated \in BOOLEAN : Synthesize(p, generated)
       \/ \E p \in Procs : Record(p)
       \/ \E p \in Procs : Return(p)
    /\ UNCHANGED <<route, ui>>

Spec == Init /\ [][Next]_vars

\* inputs of the interleaved runs
ConcQueries == {QHi, QWhatIs, QMore}
ConcVectorResponses == {<<30, 20>>}

\* answers with and without a candidate above the educational threshold
FairVectorResponses == ConcVectorResponses \cup {<<20>>}

\* the steps an invocation takes on its own once it was received
PipelineStep(p) ==
    /\ \/ Classify(p)
       \/ CasualShortCircuit(p)
       \/ \E memory_ok \in BOOLEAN : MemoryResolve(p, memory_ok)
       \/ Route(p)
       \/ \E r \in FairVectorResponses : Retrieve(p, r, TRUE)
       \/ RetrieveDegraded(p)
       \/ \E generated \in BOOLEAN : Synthesize(p, generated)
       \/ Record(p)
       \/ Return(p)
    /\ UNCHANGED <<route, ui>>

\* a greeting, an empty query, a follow-up and a question that a casual
\* pattern matches as well
FairQueries == {QHi, QEmpty, QMore, QWhatIsDaily}

FairNext ==
    \/ /\ \E p \in Procs, t \in Threads, q \in FairQueries :
             Alone(p) /\ Receive(p, t, q)
       /\ UNCHANGED <<route, ui>>
    \/ \E p \in Procs : PipelineStep(p)

\* one invocation at a time, none of which stops halfway: every call of
\* the pipeline returns or times out
FairSpec ==
    Init /\ [][FairNext]_vars /\ \A p \in Procs : WF_vars(PipelineStep(p))

\* two process_query invocations interleaved
ConcNext ==
    /\ \/ \E p \in Procs, t \in Threads, q \in ConcQueries : Receive(p, t, q)
       \/ \E p \in Procs : Classify(p)
       \/ \E p \in Procs : CasualShortCircuit(p)
       \/ \E p \in Procs, memory_ok \in BOOLEAN : MemoryResolve(p, memory_ok)
       \/ \E p \in Procs : Route(p)
       \/ \E p \in Procs, r \in ConcVectorResponses : Retrieve(p, r, TRUE)
       \/ \E p \in Procs : RetrieveDegraded(p)
       \/ \E p \in Procs, generated \in BOOLEAN : Synthesize(p, generated)
       \/ \E p \in Procs : Record(p)
       \/ \E p \in Procs : Return(p)
    /\ UNCHANGED <<route, ui>>

ConcSpec == Init /\ [][ConcNext]_vars

\* an invocation of a fresh chatbot that has retrieved and is about to synthesize
RetrievedProc(t, q, outcome) ==
    LET res == ResolveResult(q, << >>)
        namespace == DetermineQueryNamespace(q, res.augmented_query)
    IN  [IdleProc EXCEPT
            !.pc = "RETRIEVED", !.thread = t, !.query = q,
            !.complexity = ClassifyQueryComplexity(q),
            !.resolved = [augmented_query |-> res.augmented_query,
                          is_follow_up |-> res.is_follow_up,
                          follow_up_context |-> res.follow_up_context,
                          memory_recovered |-> FALSE, reset |-> FALSE],
            !.namespace = namespace,
            !.vector_calls = 1,
            !.matches = outcome.matches,
            !.retrieval = [outcome.retrieval EXCEPT !.namespace = namespace]]

\* the answers of the vector search an invocation may hold, each with the
\* retrieval result made of it
RetrievalResults ==
    {[matches |-> TakeFirst(Matches(r), TOP_K),
      retrieval |-> AdvancedEducationalSearch(r, "none", expand)] :
        r \in VectorResponses, expand \in BOOLEAN}
    \cup {[matches |-> << >>, retrieval |-> DegradedRetrieval("none")]}

\* two invocations, on any non-casual queries, both about to synthesize
SynthInit ==
    /\ proc \in [Procs ->
          {RetrievedProc(t, q, outcome) :
              t \in Threads,
              q \in {x \in Queries : x # << >> /\ IsCasualConversation(x) = "none"},
              outcome \in RetrievalResults}]
    /\ \E p \in Procs :
          /\ last_resolve = p
          /\ conversation_memory = [thread_id |-> proc[p].thread]
    /\ conversation_history = << >>
    /\ route = IdleRoute
    /\ ui = IdleUi

SynthNext ==
    /\ \E p \in Procs, generated \in BOOLEAN : Synthesize(p, generated)
    /\ UNCHANGED <<route, ui>>

SynthSpec == SynthInit /\ [][SynthNext]_vars

\* ------------------------------------------------------------------------
\* _reset_conversation_memory statement by statement, for invocations that
\* run in parallel on one chatbot
\* ------------------------------------------------------------------------
\* the thread_id test under one lock for all threads, held until the record
ResetCheckGlobalLock(p) ==
    /\ proc[p].pc = "CLASSIFIED"
    /\ proc[p].casual = "none"
    /\ \A r \in Procs \ {p} :
          proc[r].pc \notin {"RESET_CLEAR", "RESET_ADOPT", "RESET_DONE",
                             "MEMORY_RESOLVED", "ROUTED", "RETRIEVED", "SYNTHESIZED"}
    /\ proc' = [proc EXCEPT ![p].pc =
                  IF conversation_memory.thread_id # proc[p].thread
                  THEN "RESET_CLEAR" ELSE "RESET_DONE"]
    /\ UNCHANGED <<conversation_memory, conversation_history, last_resolve>>

\* if self.conversation_memory.get('thread_id') != thread_id:
ResetCheck(p) ==
    /\ proc[p].pc = "CLASSIFIED"
    /\ proc[p].casual = "none"
    /\ proc' = [proc EXCEPT ![p].pc =
                  IF conversation_memory.thread_id # proc[p].thread
                  THEN "RESET_CLEAR" ELSE "RESET_DONE"]
    /\ UNCHANGED <<conversation_memory, conversation_history, last_resolve>>

\* self.conversation_history = []
ResetClear(p) ==
    /\ proc[p].pc = "RESET_CLEAR"
    /\ conversation_history' = << >>
    /\ proc' = [proc EXCEPT ![p].pc = "RESET_ADOPT"]
    /\ UNCHANGED <<conversation_memory, last_resolve>>

\* self.conversation_memory = { ..., 'thread_id': thread_id, ... }
ResetAdopt(p) ==
    /\ proc[p].pc = "RESET_ADOPT"
    /\ conversation_memory' = [thread_id |-> proc[p].thread]
    /\ proc' = [proc EXCEPT ![p].pc = "RESET_DONE"]
    /\ UNCHANGED <<conversation_history, last_resolve>>

\* follow-up detection and query enhancement on the history as it is now
ResolveAfterReset(p) ==
    /\ proc[p].pc = "RESET_DONE"
    /\ LET res == ResolveResult(proc[p].query, conversation_history) IN
        proc' = [proc EXCEPT ![p].pc = "MEMORY_RESOLVED",
                   ![p].resolved =
                       [augmented_query |-> res.augmented_query,
                        is_follow_up |-> res.is_follow_up,
                        follow_up_context |-> res.follow_up_context,
                        memory_recovered |-> FALSE, reset |-> FALSE]]
    /\ last_resolve' = p
    /\ UNCHANGED <<conversation_memory, conversation_history>>

\* record(thread_id, query, result); the invocation stays as it finished
RecordAndKeep(p) ==
    /\ proc[p].pc = "SYNTHESIZED"
    /\ conversation_history' =
          RecordEntry(conversation_history, proc[p].thread, proc[p].query)
    /\ proc' = [proc EXCEPT ![p].pc = "RECORDED"]
    /\ last_resolve' = 0
    /\ UNCHANGED conversation_memory

RaceQueries == {QWhatIs, QMore, QCompare}

\* each process runs one invocation, in parallel with the other
RaceNext ==
    /\ \/ \E p \in Procs, t \in Threads, q \in RaceQueries : Receive(p, t, q)
       \/ \E p \in Procs : Classify(p)
       \/ \E p \in Procs : ResetCheck(p)
       \/ \E p \in Procs : ResetClear(p)
       \/ \E p \in Procs : ResetAdopt(p)
       \/ \E p \in Procs : ResolveAfterReset(p)
       \/ \E p \in Procs : Route(p)
       \/ \E p \in Procs, r \in ConcVectorResponses : Retrieve(p, r, TRUE)
       \/ \E p \in Procs : RetrieveDegraded(p)
       \/ \E p \in Procs, generated \in BOOLEAN : Synthesize(p, generated)
       \/ \E p \in Procs : RecordAndKeep(p)
    /\ UNCHANGED <<route, ui>>

RaceSpec == Init /\ [][RaceNext]_vars

\* ------------------------------------------------------------------------
\* The chat route (POST of app/api/chat/route.ts) in front of the backend
\* ------------------------------------------------------------------------
RouteQueries == {QHi, QWhatIs, QMore, QBlank}

\* request bodies: unparsable, last message not from the user, or a user
\* message whose content is a string, a parts array or another value
RequestBodies ==
    {[kind |-> k, form |-> "none", text |-> << >>] : k \in {"malformed", "no_user"}}
    \cup {[kind |-> "user", form |-> f, text |-> q] :
            f \in {"string", "parts"}, q \in RouteQueries}
    \cup {[kind |-> "user", form |-> f, text |-> << >>] :
            f \in {"parts_no_text", "other"}}

\* messageContent of the latest user message
MessageContent(b) ==
    IF b.form \in {"string", "parts"} THEN b.text
    ELSE IF b.form = "parts_no_text" THEN << >>
    ELSE <<"[object", "Object]">>

\* content of the latest message in streamlitMessages
StreamlitContent(b) ==
    IF b.form \in {"string", "parts"} THEN b.text ELSE << >>

ErrorMessage == "I apologize, but I encountered an error while processing your request. Please try again."
DefaultErrorResponse == "I apologize, but I encountered an error processing your request."

TextChunk(text) == [type |-> "0", text |-> text]
FinishChunk(reason) == [type |-> "d", text |-> reason]

\* the catch block answering with the text of the caught error
ErrorStreamResponseRaw(r, error) ==
    [r EXCEPT !.pc = "responded", !.caught = error, !.status = 200,
              !.body = "error_stream",
              !.out = <<TextChunk(error), FinishChunk("error")>>,
              !.controller = "closed"]

\* the catch block of POST: the error stream
ErrorStreamResponse(r, error) ==
    [r EXCEPT !.pc = "responded", !.caught = error, !.status = 200,
              !.body = "error_stream",
              !.out = <<TextChunk(ErrorMessage), FinishChunk("error")>>,
              !.controller = "closed"]

\* new Response(text, { status: 400 })
BadRequest(text) ==
    [IdleRoute EXCEPT !.pc = "responded", !.status = 400, !.body = text]

\* aiResponse.split(' ')
AnswerWords(ai_response) == <<"word_1", "word_2">>

RECURSIVE SourceChunks(_, _)
\* the chunks sent for sources[i..]
SourceChunks(sources, i) ==
    IF i > Len(sources) THEN << >>
    ELSE <<[text |-> "source_title", word |-> FALSE],
           [text |-> "source_download", word |-> FALSE]>>
         \o SourceChunks(sources, i + 1)

\* the sendChunk calls with the sources section ahead of the answer
StreamPlanSourcesFirst(data) ==
    (IF data.is_follow_up /\ data.follow_up_context.present
     THEN <<[text |-> "follow_up_indicator", word |-> FALSE]>>
          \o (IF data.follow_up_context.previous_topic # << >>
              THEN <<[text |-> "previous_topic", word |-> FALSE]>>
              ELSE << >>)
     ELSE << >>)
    \o (IF data.reasoning \notin {"", " "}
        THEN <<[text |-> "separator", word |-> FALSE],
               [text |-> "reasoning_html", word |-> FALSE],
               [text |-> "separator", word |-> FALSE]>>
        ELSE << >>)
    \o (IF Len(data.sources) > 0
        THEN <<[text |-> "separator", word |-> FALSE],
               [text |-> "sources_header", word |-> FALSE]>>
             \o SourceChunks(data.sources, 1)
        ELSE << >>)
    \o [i \in 1..Len(AnswerWords(data.ai_response)) |->
           [text |-> AnswerWords(data.ai_response)[i], word |-> TRUE]]

\* the sendChunk calls of start(), in order
StreamPlan(data) ==
    (IF data.is_follow_up /\ data.follow_up_context.present
     THEN <<[text |-> "follow_up_indicator", word |-> FALSE]>>
          \o (IF data.follow_up_context.previous_topic # << >>
              THEN <<[text |-> "previous_topic", word |-> FALSE]>>
              ELSE << >>)
     ELSE << >>)
    \o (IF data.reasoning \notin {"", " "}
        THEN <<[text |-> "separator", word |-> FALSE],
               [text |-> "reasoning_html", word |-> FALSE],
               [text |-> "separator", word |-> FALSE]>>
        ELSE << >>)
    \o [i \in 1..Len(AnswerWords(data.ai_response)) |->
           [text |-> AnswerWords(data.ai_response)[i], word |-> TRUE]]
    \o (IF Len(data.sources) > 0
        THEN <<[text |-> "separator", word |-> FALSE],
               [text |-> "sources_header", word |-> FALSE]>>
             \o SourceChunks(data.sources, 1)
        ELSE << >>)

\* new ReadableStream({ start, cancel }) returned in a Response
StartStream(r, data) ==
    [r EXCEPT !.pc = "streaming", !.status = 200, !.body = "stream",
              !.data = data, !.plan = StreamPlan(data),
              !.controller = "readable"]

\* the fields read from a successful backend answer
ResponseData(pr, reasoning) ==
    [ai_response |-> pr.result.answer_text,
     reasoning |-> reasoning,
     sources |-> pr.result.sources,
     confidence |-> pr.result.confidence,
     is_follow_up |-> pr.resolved.is_follow_up,
     follow_up_context |-> pr.resolved.follow_up_context]

\* an error answer read like a successful one
ErrorDataPassedThrough(pr, with_message, reasoning) ==
    [ai_response |-> IF with_message THEN pr.result.answer_text
                     ELSE DefaultErrorResponse,
     reasoning |-> IF with_message THEN reasoning ELSE "",
     sources |-> pr.result.sources, confidence |-> pr.result.confidence,
     is_follow_up |-> pr.resolved.is_follow_up,
     follow_up_context |-> pr.resolved.follow_up_context]

\* the fields set when the backend answer carries data.error
ErrorData(pr, with_message, reasoning) ==
    [ai_response |-> IF with_message THEN pr.result.answer_text
                     ELSE DefaultErrorResponse,
     reasoning |-> IF with_message THEN reasoning ELSE "",
     sources |-> << >>, confidence |-> 0, is_follow_up |-> FALSE,
     follow_up_context |-> NullContext]

\* POST up to the backend fetch: parse and validate the request
RoutePost(b) ==
    /\ route.pc = "idle"
    /\ route' =
          IF b.kind = "malformed"
          THEN ErrorStreamResponse(IdleRoute, "request body is not JSON")
          ELSE IF b.kind = "no_user"
          THEN BadRequest("Invalid message format")
          ELSE IF Trim(MessageContent(b)) = << >>
          THEN BadRequest("Empty message content")
          ELSE [IdleRoute EXCEPT !.pc = "fetching", !.query = StreamlitContent(b)]
    /\ UNCHANGED <<conversation_memory, conversation_history, proc, last_resolve, ui>>

\* fetch throws: the backend is unreachable
RouteFetchThrows ==
    /\ route.pc = "fetching"
    /\ route' = ErrorStreamResponse(route, "fetch failed")
    /\ UNCHANGED <<conversation_memory, conversation_history, proc, last_resolve, ui>>

\* fetch reaches the backend, which enters process_query
RouteFetchSent(p, t) ==
    /\ route.pc = "fetching"
    /\ Alone(p)
    /\ Receive(p, t, route.query)
    /\ route' = [route EXCEPT !.pc = "awaiting_backend"]
    /\ UNCHANGED ui

\* the backend works on the query while the route awaits the fetch
BackendStep(p) ==
    /\ route.pc = "awaiting_backend"
    /\ \/ Classify(p)
       \/ CasualShortCircuit(p)
       \/ \E memory_ok \in BOOLEAN : MemoryResolve(p, memory_ok)
       \/ Route(p)
       \/ \E r \in ConcVectorResponses : Retrieve(p, r, TRUE)
       \/ RetrieveDegraded(p)
       \/ \E generated \in BOOLEAN : Synthesize(p, generated)
    /\ UNCHANGED <<route, ui>>

BackendOutcomes ==
    {"ok", "http_error", "bad_json", "no_ai_message",
     "error_with_message", "error_bare"}

\* the backend answers the fetch and POST goes on to its response
BackendRespond(p, outcome, reasoning) ==
    /\ route.pc = "awaiting_backend"
    /\ proc[p].pc \in {"CASUAL_SHORT_CIRCUIT", "REJECTED", "SYNTHESIZED"}
    /\ IF proc[p].pc = "SYNTHESIZED" THEN Record(p) ELSE Return(p)
    /\ route' =
          IF outcome = "http_error"
          THEN ErrorStreamResponse(route, "Backend responded with status: 500")
          ELSE IF outcome = "bad_json"
          THEN ErrorStreamResponse(route, "response body is not JSON")
          ELSE IF outcome = "no_ai_message"
          THEN ErrorStreamResponse(route, "cannot read content of undefined")
          ELSE IF outcome = "ok"
          THEN StartStream(route, ResponseData(proc[p], reasoning))
          ELSE StartStream([route EXCEPT !.backend_error = TRUE],
                   ErrorData(proc[p], outcome = "error_with_message", reasoning))
    /\ UNCHANGED ui

\* the rest of the plan after the word loop is left
AfterWords(plan) == SelectSeq(plan, LAMBDA c : ~c.word)

\* one sendChunk call of start()
StreamSend ==
    /\ route.pc = "streaming"
    /\ route.plan # << >>
    /\ route' =
          IF route.controller = "errored"
          THEN IF Head(route.plan).word
               THEN [route EXCEPT !.plan = AfterWords(@)]
               ELSE [route EXCEPT !.plan = Tail(@)]
          ELSE IF route.controller = "closed"
          THEN [route EXCEPT !.pc = "responded", !.plan = << >>,
                             !.stream_caught = TRUE, !.error_called = TRUE]
          ELSE [route EXCEPT !.plan = Tail(@),
                             !.out = Append(@, TextChunk(Head(route.plan).text))]
    /\ UNCHANGED <<conversation_memory, conversation_history, proc, last_resolve, ui>>

\* the finish signal and close() at the end of start()
StreamFinish ==
    /\ route.pc = "streaming"
    /\ route.plan = << >>
    /\ route' =
          IF route.controller = "errored"
          THEN [route EXCEPT !.pc = "responded"]
          ELSE IF route.controller = "closed"
          THEN [route EXCEPT !.pc = "responded", !.stream_caught = TRUE,
                             !.error_called = TRUE]
          ELSE [route EXCEPT !.pc = "responded",
                             !.out = Append(@, FinishChunk("stop")),
                             !.controller = "closed"]
    /\ UNCHANGED <<conversation_memory, conversation_history, proc, last_resolve, ui>>

\* the client cancels the stream it is reading
ClientCancel ==
    /\ route.pc = "streaming"
    /\ route.controller = "readable"
    /\ route' = [route EXCEPT !.controller = "closed", !.cancelled = TRUE]
    /\ UNCHANGED <<conversation_memory, conversation_history, proc, last_resolve, ui>>

\* the caller aborts the request before POST has answered it: POST never
\* reads req.signal and hands no signal to fetch, so nothing but the
\* caller's side changes
ClientAbort ==
    /\ route.pc \in {"fetching", "awaiting_backend"}
    /\ ~route.aborted
    /\ route' = [route EXCEPT !.aborted = TRUE]
    /\ UNCHANGED <<conversation_memory, conversation_history, proc, last_resolve, ui>>

\* the request is over
RouteDone ==
    /\ route.pc = "responded"
    /\ route' = IdleRoute
    /\ UNCHANGED <<conversation_memory, conversation_history, proc, last_resolve, ui>>

Reasonings == {"", " ", "reasoning_text"}

\* the steps POST and the backend take on their own once a request is in
RouteProgress ==
    \/ RouteFetchThrows
    \/ \E p \in Procs, t \in Threads : RouteFetchSent(p, t)
    \/ \E p \in Procs : BackendStep(p)
    \/ \E p \in Procs, outcome \in BackendOutcomes, reasoning \in Reasonings :
          BackendRespond(p, outcome, reasoning)
    \/ StreamSend
    \/ StreamFinish

RouteNext ==
    \/ \E b \in RequestBodies : RoutePost(b)
    \/ RouteProgress
    \/ ClientCancel
    \/ ClientAbort
    \/ RouteDone

\* requests served one at a time by the route in front of the backend
RouteSpec == Init /\ [][RouteNext]_vars /\ WF_vars(RouteProgress)

\* ------------------------------------------------------------------------
\* The classifier applied to every short text over a small vocabulary
\* ------------------------------------------------------------------------
MaxWords == 3

ClassifierWords == {"Hi", "is", "compare", "how", "to"}

ClassifierQueries ==
    UNION {[1..n -> ClassifierWords] : n \in 0..MaxWords}

ClassifierInit ==
    /\ \E q \in ClassifierQueries, t \in Threads :
          proc = [p \in Procs |->
                    IF p = 1
                    THEN [IdleProc EXCEPT !.pc = "RECEIVED", !.thread = t,
                                          !.query = q]
                    ELSE IdleProc]
    /\ conversation_memory = [thread_id |-> NoThread]
    /\ conversation_history = << >>
    /\ last_resolve = 0
    /\ route = IdleRoute
    /\ ui = IdleUi

ClassifierNext ==
    /\ \E p \in Procs : Classify(p)
    /\ UNCHANGED <<route, ui>>

ClassifierSpec == ClassifierInit /\ [][ClassifierNext]_vars

\* ------------------------------------------------------------------------
\* Namespace detection applied to every short text over the keyword tables
\* ------------------------------------------------------------------------
RouterWords == {"preschool", "assessment", "formative", "policy", "lesson"}

RouterQueries == UNION {[1..n -> RouterWords] : n \in 1..MaxWords}

\* topics memory may have prepended to the query
RouterTopics == {<< >>, <<"policy">>}

RouterInit ==
    /\ \E q \in RouterQueries, topic \in RouterTopics, t \in Threads :
          proc = [p \in Procs |->
                    IF p = 1
                    THEN [IdleProc EXCEPT
                            !.pc = "MEMORY_RESOLVED", !.thread = t, !.query = q,
                            !.complexity = ClassifyQueryComplexity(q),
                            !.resolved = [NoResolve EXCEPT
                                !.augmented_query = topic \o q,
                                !.is_follow_up = (topic # << >>)]]
                    ELSE IdleProc]
    /\ conversation_memory = [thread_id |-> NoThread]
    /\ conversation_history = << >>
    /\ last_resolve = 0
    /\ route = IdleRoute
    /\ ui = IdleUi

RouterNext ==
    /\ \E p \in Procs : Route(p)
    /\ UNCHANGED <<route, ui>>

RouterSpec == RouterInit /\ [][RouterNext]_vars

\* ------------------------------------------------------------------------
\* ChatInterface (src/components/ChatInterface.tsx): the handlers of the
\* view, each split at its awaits, over the sessions the backend keeps
\* ------------------------------------------------------------------------
\* prev.sessions.filter(s => s.id !== sessionId)
WithoutSession(sessions, sessionId) ==
    SelectSeq(sessions, LAMBDA s : s # sessionId)

InSeq(seq, x) == \E i \in 1..Len(seq) : seq[i] = x

\* data.messages of a session: each message tagged with its session
SessionMessages(server, sessionId) ==
    [i \in 1..(2 * server.exchanges[sessionId]) |-> sessionId]

\* the state a handler sees: the one of the render it was created in
RenderedState ==
    [currentSession |-> ui.currentSession, sessions |-> ui.sessions,
     messages |-> ui.messages]

\* a handler is called from the rendered view
StartCall(k, kind, sessionId) ==
    /\ ui.calls[k].kind = "none"
    /\ ui' = [ui EXCEPT !.calls[k] =
                [NoCall EXCEPT !.kind = kind, !.pc = "awaiting",
                               !.sessionId = sessionId,
                               !.state = RenderedState]]

\* the view is mounted: useEffect calls initializeApp
ChatInterfaceInit ==
    /\ CoreInit
    /\ route = IdleRoute
    /\ \E n \in 0..1, e \in 0..MaxExchanges :
          ui = [IdleUi EXCEPT
                  !.loading = TRUE,
                  !.calls[1] = [NoCall EXCEPT !.kind = "initializeApp",
                                              !.pc = "healthCheck"],
                  !.server = [sessions |-> [i \in 1..n |-> 1],
                              exchanges |-> [s \in 1..MaxSessions |->
                                               IF s <= n THEN e ELSE 0],
                              next_id |-> n + 1]]

\* initializeApp up to the sessions being set; its catch block on failure
InitializeApp(k, ok, system_ready) ==
    LET call == ui.calls[k] IN
    /\ call.kind = "initializeApp"
    /\ IF ~ok
       THEN ui' = [ui EXCEPT !.loading = FALSE, !.systemReady = FALSE,
                             !.calls[k] = NoCall]
       ELSE IF call.pc = "healthCheck"
       THEN ui' = [ui EXCEPT !.calls[k].pc = "getChatSessions",
                             !.calls[k].ok = system_ready]
       ELSE LET sessions == ui.server.sessions IN
            ui' = [ui EXCEPT
                     !.sessions = sessions,
                     !.systemReady = call.ok,
                     !.loading = FALSE,
                     !.calls[k] =
                         IF Len(sessions) > 0
                         THEN [NoCall EXCEPT !.kind = "loadSession",
                                             !.pc = "awaiting",
                                             !.sessionId = sessions[1]]
                         ELSE [NoCall EXCEPT !.kind = "createNewSession",
                                             !.pc = "awaiting"]]

\* onNewSession, onSessionSelect, onSessionDelete of the sidebar
CreateNewSession(k) ==
    /\ ~ui.loading
    /\ StartCall(k, "createNewSession", NoSession)

LoadSession(k, sessionId) ==
    /\ ~ui.loading
    /\ InSeq(ui.sessions, sessionId)
    /\ StartCall(k, "loadSession", sessionId)

DeleteSession(k, sessionId) ==
    /\ ~ui.loading
    /\ InSeq(ui.sessions, sessionId)
    /\ StartCall(k, "deleteSession", sessionId)

\* sendMessage, called by the thread, which sends one message at a time
SendMessage(k) ==
    /\ ~ui.loading
    /\ ui.currentSession # NoSession
    /\ ui.systemReady
    /\ \A j \in 1..MaxCalls : ui.calls[j].kind # "sendMessage"
    /\ StartCall(k, "sendMessage", ui.currentSession)

\* the apiService request a handler awaits
ApiRequest(kind) ==
    IF kind \in {"createNewSession", "handleNewChat"} THEN "createChatSession"
    ELSE IF kind \in {"loadSession", "assistantLoadSession"} THEN "getChatSession"
    ELSE IF kind = "deleteSession" THEN "deleteChatSession"
    ELSE "sendMessage"

\* the backend serves the request of an awaiting call, or the request fails
ServeCall(k, ok) ==
    LET call == ui.calls[k]
        server == ui.server
        known == InSeq(server.sessions, call.sessionId)
        request == ApiRequest(call.kind)
    IN
    /\ call.pc = "awaiting"
    /\ IF request = "createChatSession" /\ ok /\ server.next_id <= MaxSessions
       THEN ui' = [ui EXCEPT
                     !.server.sessions = <<server.next_id>> \o @,
                     !.server.next_id = @ + 1,
                     !.calls[k].pc = "replied", !.calls[k].ok = TRUE,
                     !.calls[k].reply = <<server.next_id>>]
       ELSE IF request = "getChatSession" /\ ok /\ known
       THEN ui' = [ui EXCEPT
                     !.calls[k].pc = "replied", !.calls[k].ok = TRUE,
                     !.calls[k].reply = SessionMessages(server, call.sessionId)]
       ELSE IF request = "deleteChatSession" /\ ok /\ known
       THEN ui' = [ui EXCEPT
                     !.server.sessions = WithoutSession(@, call.sessionId),
                     !.calls[k].pc = "replied", !.calls[k].ok = TRUE]
       ELSE IF /\ request = "sendMessage" /\ ok /\ known
               /\ server.exchanges[call.sessionId] < MaxExchanges
       THEN ui' = [ui EXCEPT
                     !.server.exchanges[call.sessionId] = @ + 1,
                     !.calls[k].pc = "replied", !.calls[k].ok = TRUE,
                     !.calls[k].reply = <<call.sessionId, call.sessionId>>]
       ELSE ui' = [ui EXCEPT !.calls[k].pc = "replied", !.calls[k].ok = FALSE]

\* the promise of a call settles and the handler runs on from its await
ResolveCall(k) ==
    LET call == ui.calls[k] IN
    /\ call.pc = "replied"
    /\ call.kind \in {"createNewSession", "loadSession", "deleteSession",
                       "sendMessage"}
    /\ IF ~call.ok
       THEN ui' = [ui EXCEPT !.calls[k] = NoCall]
       ELSE IF call.kind = "createNewSession"
       THEN ui' = [ui EXCEPT !.sessions = call.reply \o @,
                             !.currentSession = call.reply[1],
                             !.messages = << >>,
                             !.calls[k] = NoCall]
       ELSE IF call.kind = "loadSession"
       THEN ui' = [ui EXCEPT !.currentSession = call.sessionId,
                             !.messages = call.reply,
                             !.calls[k] = NoCall]
       ELSE IF call.kind = "deleteSession"
       THEN LET newSessions == WithoutSession(ui.sessions, call.sessionId)
                needsNewSession == ui.currentSession = call.sessionId
                remainingSessions ==
                    WithoutSession(call.state.sessions, call.sessionId)
            IN  ui' = [ui EXCEPT
                         !.sessions = newSessions,
                         !.currentSession =
                             IF needsNewSession
                             THEN IF newSessions # << >>
                                  THEN newSessions[1] ELSE NoSession
                             ELSE @,
                         !.messages = IF needsNewSession THEN << >> ELSE @,
                         !.calls[k] =
                             IF /\ call.state.currentSession = call.sessionId
                                /\ Len(call.state.sessions) > 1
                                /\ Len(remainingSessions) > 0
                             THEN [NoCall EXCEPT
                                     !.kind = "loadSession", !.pc = "awaiting",
                                     !.sessionId = remainingSessions[1]]
                             ELSE NoCall]
       ELSE ui' = [ui EXCEPT !.messages = @ \o call.reply,
                             !.calls[k] = NoCall]

ChatInterfaceNext ==
    /\ \/ \E k \in 1..MaxCalls, ok \in BOOLEAN, system_ready \in BOOLEAN :
             InitializeApp(k, ok, system_ready)
       \/ \E k \in 1..MaxCalls : CreateNewSession(k)
       \/ \E k \in 1..MaxCalls, sessionId \in 1..MaxSessions :
             LoadSession(k, sessionId)
       \/ \E k \in 1..MaxCalls, sessionId \in 1..MaxSessions :
             DeleteSession(k, sessionId)
       \/ \E k \in 1..MaxCalls : SendMessage(k)
       \/ \E k \in 1..MaxCalls, ok \in BOOLEAN : ServeCall(k, ok)
       \/ \E k \in 1..MaxCalls : ResolveCall(k)
    /\ UNCHANGED <<conversation_memory, conversation_history, proc,
                   last_resolve, route>>

ChatInterfaceSpec == ChatInterfaceInit /\ [][ChatInterfaceNext]_vars

\* ------------------------------------------------------------------------
\* AssistantChatInterface (src/components/AssistantChatInterface.tsx)
\* ------------------------------------------------------------------------
\* the view is mounted: useEffect calls initializeApp
AssistantInit ==
    /\ CoreInit
    /\ route = IdleRoute
    /\ \E n \in 0..1, e \in 0..MaxExchanges :
          ui = [IdleUi EXCEPT
                  !.calls[1] = [NoCall EXCEPT !.kind = "assistantInitializeApp",
                                              !.pc = "healthCheck"],
                  !.server = [sessions |-> [i \in 1..n |-> 1],
                              exchanges |-> [s \in 1..MaxSessions |->
                                               IF s <= n THEN e ELSE 0],
                              next_id |-> n + 1]]

\* initializeApp of the assistant view; a failure is only logged
AssistantInitializeApp(k, ok, system_ready) ==
    LET call == ui.calls[k] IN
    /\ call.kind = "assistantInitializeApp"
    /\ IF ~ok
       THEN ui' = [ui EXCEPT !.calls[k] = NoCall]
       ELSE IF call.pc = "healthCheck"
       THEN ui' = [ui EXCEPT !.systemReady = system_ready,
                             !.calls[k].pc = "getChatSessions"]
       ELSE LET sessionsData == ui.server.sessions IN
            IF Len(sessionsData) = 0
            THEN ui' = [ui EXCEPT
                          !.sessions = sessionsData,
                          !.calls[k] = [NoCall EXCEPT !.kind = "handleNewChat",
                                                      !.pc = "awaiting"]]
            ELSE ui' = [ui EXCEPT
                          !.sessions = sessionsData,
                          !.currentSession = sessionsData[1],
                          !.calls[k] =
                              [NoCall EXCEPT !.kind = "assistantLoadSession",
                                             !.pc = "awaiting",
                                             !.sessionId = sessionsData[1]]]

\* the New Chat button and a session of the sidebar
HandleNewChat(k) == StartCall(k, "handleNewChat", NoSession)

AssistantLoadSession(k, sessionId) ==
    /\ InSeq(ui.sessions, sessionId)
    /\ StartCall(k, "assistantLoadSession", sessionId)

\* handleSendMessage up to the first timer of simulateTypingFlow
HandleSendMessage(k) ==
    /\ ui.currentSession # NoSession
    /\ ui.systemReady
    /\ ~ui.isLoading
    /\ ui.calls[k].kind = "none"
    /\ ui' = [ui EXCEPT
                 !.isLoading = TRUE,
                 !.typingStage = "reasoning",
                 !.animatingReasoning = "temp",
                 !.calls[k] = [NoCall EXCEPT
                                 !.kind = "handleSendMessage",
                                 !.pc = "reasoning",
                                 !.sessionId = ui.currentSession,
                                 !.state = RenderedState]]

\* a timer of simulateTypingFlow runs out
TypingTimer(k) ==
    LET call == ui.calls[k] IN
    /\ call.kind = "handleSendMessage"
    /\ call.pc \in {"reasoning", "response", "sources"}
    /\ IF call.pc = "reasoning"
       THEN ui' = [ui EXCEPT !.typingStage = "response",
                             !.calls[k].pc = "response"]
       ELSE IF call.pc = "response"
       THEN ui' = [ui EXCEPT !.calls[k].pc = "awaiting"]
       ELSE ui' = [ui EXCEPT
                     !.typingStage = "null",
                     !.animatingReasoning = "null",
                     !.messages = call.state.messages \o call.reply,
                     !.sessions = call.state.sessions,
                     !.isLoading = FALSE,
                     !.calls[k] = NoCall]

\* the promise of a call settles and the handler runs on from its await
AssistantResolveCall(k) ==
    LET call == ui.calls[k] IN
    /\ call.pc = "replied"
    /\ call.kind \in {"handleNewChat", "assistantLoadSession",
                       "handleSendMessage"}
    /\ IF call.kind = "handleSendMessage"
       THEN IF call.ok
            THEN ui' = [ui EXCEPT !.typingStage = "sources",
                                  !.calls[k].pc = "sources"]
            ELSE ui' = [ui EXCEPT !.isLoading = FALSE, !.calls[k] = NoCall]
       ELSE IF ~call.ok
       THEN ui' = [ui EXCEPT !.calls[k] = NoCall]
       ELSE IF call.kind = "handleNewChat"
       THEN ui' = [ui EXCEPT !.sessions = call.reply \o call.state.sessions,
                             !.currentSession = call.reply[1],
                             !.messages = << >>,
                             !.calls[k] = NoCall]
       ELSE ui' = [ui EXCEPT !.messages = call.reply,
                             !.currentSession = call.sessionId,
                             !.calls[k] = NoCall]

AssistantNext ==
    /\ \/ \E k \in 1..MaxCalls, ok \in BOOLEAN, system_ready \in BOOLEAN :
             AssistantInitializeApp(k, ok, system_ready)
       \/ \E k \in 1..MaxCalls : HandleNewChat(k)
       \/ \E k \in 1..MaxCalls, sessionId \in 1..MaxSessions :
             AssistantLoadSession(k, sessionId)
       \/ \E k \in 1..MaxCalls : HandleSendMessage(k)
       \/ \E k \in 1..MaxCalls : TypingTimer(k)
       \/ \E k \in 1..MaxCalls, ok \in BOOLEAN : ServeCall(k, ok)
       \/ \E k \in 1..MaxCalls : AssistantResolveCall(k)
    /\ UNCHANGED <<conversation_memory, conversation_history, proc,
                   last_resolve, route>>

AssistantSpec == AssistantInit /\ [][AssistantNext]_vars

\* ------------------------------------------------------------------------
\* The session-based chat route (POST of src/unnamed/part_004) in front of
\* the backend's chat sessions
\* ------------------------------------------------------------------------
\* the chunks sent for sources[i..] by the session route
RECURSIVE SessionSourceChunks(_, _)
SessionSourceChunks(sources, i) ==
    IF i > Len(sources) THEN << >>
    ELSE <<[text |-> "source_number", word |-> FALSE],
           [text |-> "source_document", word |-> FALSE],
           [text |-> "source_relevance", word |-> FALSE],
           [text |-> "source_end", word |-> FALSE]>>
         \o SessionSourceChunks(sources, i + 1)

\* the sendChunk calls of start() of the session route, in order
SessionStreamPlan(data) ==
    (IF data.is_follow_up /\ data.follow_up_context.present
     THEN <<[text |-> "follow_up_indicator", word |-> FALSE],
            [text |-> "context_details_open", word |-> FALSE]>>
          \o (IF data.follow_up_context.detected_phrases # {}
              THEN <<[text |-> "detected_phrases", word |-> FALSE]>>
              ELSE << >>)
          \o (IF data.follow_up_context.previous_topic # << >>
              THEN <<[text |-> "previous_topic", word |-> FALSE]>>
              ELSE << >>)
          \o <<[text |-> "context_details_close", word |-> FALSE]>>
     ELSE << >>)
    \o (IF data.reasoning \notin {"", " "}
        THEN <<[text |-> "reasoning_header", word |-> FALSE],
               [text |-> "reasoning_details_open", word |-> FALSE],
               [text |-> "reasoning_sentence", word |-> FALSE],
               [text |-> "reasoning_details_close", word |-> FALSE]>>
        ELSE << >>)
    \o <<[text |-> "response_header", word |-> FALSE]>>
    \o [i \in 1..Len(AnswerWords(data.ai_response)) |->
           [text |-> AnswerWords(data.ai_response)[i], word |-> TRUE]]
    \o (IF Len(data.sources) > 0
        THEN <<[text |-> "sources_header", word |-> FALSE],
               [text |-> "sources_details_open", word |-> FALSE]>>
             \o SessionSourceChunks(data.sources, 1)
             \o <<[text |-> "confidence_score", word |-> FALSE]>>
        ELSE << >>)

\* answers of the backend to a posted message
SessionAnswers ==
    {[ai_response |-> "generated_text", reasoning |-> r, sources |-> src,
      confidence |-> 0, is_follow_up |-> c.present, follow_up_context |-> c] :
        r \in {"", "reasoning_text"},
        src \in {<< >>, <<[id |-> 1, score |-> 30]>>},
        c \in {NullContext,
                [present |-> TRUE, detected_phrases |-> {"more on"},
                 previous_topic |-> <<"formative">>, from_threads |-> {"t1"}]}}

\* POST up to the session listing: parse and validate the request
SessionRoutePost(b) ==
    /\ route.pc = "idle"
    /\ route' =
          IF b.kind = "malformed"
          THEN ErrorStreamResponse(IdleRoute, "request body is not JSON")
          ELSE IF b.kind = "no_user"
          THEN BadRequest("Invalid message format")
          ELSE IF Trim(MessageContent(b)) = << >>
          THEN BadRequest("Empty message content")
          ELSE [IdleRoute EXCEPT !.pc = "listing_sessions",
                                 !.query = MessageContent(b)]
    /\ UNCHANGED <<conversation_memory, conversation_history, proc, last_resolve, ui>>

FetchOutcomes == {"ok", "http_error", "throws"}

\* GET /api/chat/sessions: the latest session, if the listing gives one
SessionList(outcome) ==
    /\ route.pc = "listing_sessions"
    /\ route' =
          IF outcome = "ok" /\ Len(ui.server.sessions) > 0
          THEN [route EXCEPT !.pc = "posting",
                             !.sessionId = ui.server.sessions[1],
                             !.session_source = "listed"]
          ELSE [route EXCEPT !.pc = "creating_session"]
    /\ UNCHANGED <<conversation_memory, conversation_history, proc, last_resolve, ui>>

\* session creation that goes on to the message whatever the backend answered
SessionCreateIgnoreFailure(outcome) ==
    /\ route.pc = "creating_session"
    /\ IF outcome = "ok" /\ ui.server.next_id <= MaxSessions
       THEN /\ ui' = [ui EXCEPT !.server.sessions = <<ui.server.next_id>> \o @,
                                 !.server.next_id = @ + 1]
            /\ route' = [route EXCEPT !.pc = "posting",
                                      !.sessionId = ui.server.next_id,
                                      !.session_source = "created"]
       ELSE /\ route' = [route EXCEPT !.pc = "posting"]
            /\ UNCHANGED ui
    /\ UNCHANGED <<conversation_memory, conversation_history, proc, last_resolve>>

\* POST /api/chat/sessions when no session id was found
SessionCreate(outcome) ==
    /\ route.pc = "creating_session"
    /\ IF outcome = "ok" /\ ui.server.next_id <= MaxSessions
       THEN /\ ui' = [ui EXCEPT !.server.sessions = <<ui.server.next_id>> \o @,
                                 !.server.next_id = @ + 1]
            /\ route' = [route EXCEPT !.pc = "posting",
                                      !.sessionId = ui.server.next_id,
                                      !.session_source = "created"]
       ELSE /\ route' = ErrorStreamResponse(route,
                            IF outcome = "throws" THEN "fetch failed"
                            ELSE "Failed to create session")
            /\ UNCHANGED ui
    /\ UNCHANGED <<conversation_memory, conversation_history, proc, last_resolve>>

\* POST /api/chat/sessions/${sessionId}/messages and the start of the stream
SessionPostMessage(outcome, data) ==
    LET sent == [route EXCEPT !.posted =
                    Append(@, [sessionId |-> route.sessionId,
                               content |-> route.query])]
        known == InSeq(ui.server.sessions, route.sessionId)
    IN
    /\ route.pc = "posting"
    /\ IF outcome = "ok" /\ known
       THEN /\ route' = [StartStream(sent, data) EXCEPT
                            !.plan = SessionStreamPlan(data)]
            /\ ui' = [ui EXCEPT !.server.exchanges[route.sessionId] =
                                    IF @ < MaxExchanges THEN @ + 1 ELSE @]
       ELSE /\ route' = ErrorStreamResponse(sent,
                            IF outcome = "throws" THEN "fetch failed"
                            ELSE "Backend responded with status: 500")
            /\ UNCHANGED ui
    /\ UNCHANGED <<conversation_memory, conversation_history, proc, last_resolve>>

\* the steps POST takes on its own once a request is in
SessionRouteProgress ==
    \/ \E outcome \in FetchOutcomes : SessionList(outcome)
    \/ \E outcome \in FetchOutcomes : SessionCreate(outcome)
    \/ \E outcome \in FetchOutcomes, data \in SessionAnswers :
          SessionPostMessage(outcome, data)
    \/ StreamSend
    \/ StreamFinish

SessionRouteNext ==
    \/ \E b \in RequestBodies : SessionRoutePost(b)
    \/ SessionRouteProgress
    \/ ClientCancel
    \/ RouteDone

SessionRouteSpec ==
    Init /\ [][SessionRouteNext]_vars /\ WF_vars(SessionRouteProgress)

\* ------------------------------------------------------------------------
\* Properties
\* ------------------------------------------------------------------------
\* the query matches a pattern of some casual category
MatchesCasualPattern(q) ==
    \E i \in 1..Len(CasualCategories) : CasualMatches(CasualCategories[i], Lower(q))

\* the first category, in declaration order, with a pattern matching the query
MatchedCategory(q) ==
    CasualCategories[CHOOSE i \in 1..Len(CasualCategories) :
        /\ CasualMatches(CasualCategories[i], Lower(q))
        /\ \A j \in 1..(i - 1) : ~CasualMatches(CasualCategories[j], Lower(q))]

\* the invocation has passed resolve
Resolved(p) ==
    proc[p].pc \in {"MEMORY_RESOLVED", "ROUTED", "RETRIEVED", "SYNTHESIZED"}

C2_ThreadIsolation ==
    \A p \in Procs :
        Resolved(p) =>
            /\ proc[p].resolved.follow_up_context.from_threads
                  \subseteq {proc[p].thread}
            /\ proc[p].resolved.reset =>
                  /\ proc[p].resolved.follow_up_context.previous_topic = << >>
                  /\ proc[p].resolved.augmented_query = proc[p].query

C2_Witness ==
    \E p \in Procs :
        /\ proc[p].pc = "MEMORY_RESOLVED"
        /\ proc[p].thread = "t2"
        /\ proc[p].resolved.reset
        /\ proc[p].resolved.is_follow_up
        /\ proc[p].resolved.follow_up_context.present

\* C3: under every interleaving of two invocations, every stored entry
\* was recorded for the thread id that owns the slot, and no resolve has
\* returned context built from an entry recorded for another thread.
C3_ConcurrentIsolation ==
    /\ \A i \in 1..Len(conversation_history) :
          conversation_history[i].thread = conversation_memory.thread_id
    /\ \A p \in Procs :
          Resolved(p) =>
              proc[p].resolved.follow_up_context.from_threads
                  \subseteq {proc[p].thread}

ValidSynthesisResult(result) ==
    /\ result.kind \in {"clarification", "casual", "answer", "fallback"}
    /\ result.answer_text \in
          {"clarification_request", "generated_text", "fallback_apology"}
          \cup UNION {CasualResponses(CasualCategories[i]) :
                         i \in DOMAIN CasualCategories}
    /\ result.confidence \in 0..100
    /\ result.kind # "answer" =>
          result.confidence = 0 /\ result.sources = << >>

Terminated(p) ==
    proc[p].pc \in {"CASUAL_SHORT_CIRCUIT", "REJECTED", "SYNTHESIZED"}

C6_SourcesAboveThreshold ==
    \A p \in Procs :
        proc[p].pc = "SYNTHESIZED" =>
            \A i \in 1..Len(proc[p].result.sources) :
                /\ proc[p].result.sources[i].score >= proc[p].retrieval.threshold
                /\ \E k \in 1..Len(proc[p].retrieval.chunks) :
                      /\ proc[p].retrieval.chunks[k].id = proc[p].result.sources[i].id
                      /\ proc[p].retrieval.chunks[k].score
                            = proc[p].result.sources[i].score
                      /\ ~proc[p].retrieval.chunks[k].expansion

C6_Witness ==
    \E p \in Procs :
        /\ proc[p].pc = "SYNTHESIZED"
        /\ Len(proc[p].result.sources) = 1
        /\ \E k \in 1..Len(proc[p].retrieval.chunks) :
              proc[p].retrieval.chunks[k].expansion

\* C3 is stated by C3_ConcurrentIsolation above, checked under ConcSpec.

\* the stored history length of a thread: the slot's, when the slot is its own
HistLen(mem, hist, t) == IF mem.thread_id = t THEN Len(hist) ELSE 0

\* C7: a resolve on well-formed memory leaves the stored history length of
\* its thread unchanged, and a resolve that directly follows another
\* resolve of the same thread_id and query, with no memory operation in
\* between, leaves the history as it is and returns the same result.
C7_ResolveIdempotent ==
    [][\A p \in Procs :
          (/\ proc[p].pc = "CLASSIFIED"
           /\ proc'[p].pc = "MEMORY_RESOLVED"
           /\ ~proc'[p].resolved.memory_recovered) =>
             /\ HistLen(conversation_memory', conversation_history', proc[p].thread)
                  = HistLen(conversation_memory, conversation_history, proc[p].thread)
             /\ \A r \in Procs \ {p} :
                   (/\ last_resolve = r
                    /\ proc[r].thread = proc[p].thread
                    /\ proc[r].query = proc[p].query) =>
                      /\ conversation_history' = conversation_history
                      /\ proc'[p].resolved.augmented_query
                            = proc[r].resolved.augmented_query
                      /\ proc'[p].resolved.is_follow_up
                            = proc[r].resolved.is_follow_up
                      /\ proc'[p].resolved.follow_up_context
                            = proc[r].resolved.follow_up_context
      ]_vars

C7_Witness ==
    \E p \in Procs : \E r \in Procs \ {p} :
        /\ proc[p].pc = "MEMORY_RESOLVED"
        /\ proc[r].pc = "MEMORY_RESOLVED"
        /\ last_resolve = p
        /\ proc[p].thread = proc[r].thread
        /\ proc[p].query = QMore
        /\ proc[r].query = QMore
        /\ Len(conversation_history) = 1
        /\ proc[p].resolved = proc[r].resolved
        /\ proc[p].resolved.follow_up_context.previous_topic # << >>

\* the invocation has passed namespace detection
Routed(p) == proc[p].pc \in {"ROUTED", "RETRIEVED", "SYNTHESIZED"}

ExpectedRawNamespace(q) == IF q = QCompare THEN "preschool" ELSE "k12"

C9_SimpleShorterThanComplex ==
    \A p \in Procs : \A r \in Procs :
        (proc[p].pc = "SYNTHESIZED" /\ proc[r].pc = "SYNTHESIZED") =>
            /\ (/\ proc[p].result.complexity_used = "SIMPLE"
                /\ proc[r].result.complexity_used = "COMPLEX") =>
                  proc[p].gen_max_tokens < proc[r].gen_max_tokens
            /\ proc[p].result.complexity_used = proc[r].result.complexity_used =>
                  proc[p].gen_max_tokens = proc[r].gen_max_tokens

C9_Witness ==
    \E p \in Procs : \E r \in Procs :
        /\ proc[p].pc = "SYNTHESIZED"
        /\ proc[r].pc = "SYNTHESIZED"
        /\ proc[p].retrieval.chunks = proc[r].retrieval.chunks
        /\ proc[p].retrieval.chunks # << >>
        /\ proc[p].result.complexity_used = "SIMPLE"
        /\ proc[r].result.complexity_used = "COMPLEX"
        /\ proc[p].gen_calls = 1
        /\ proc[r].gen_calls = 1

\* C10: when "how do I implement it" is resolved on the thread whose last
\* recorded query is "what is formative assessment", the result is a
\* follow-up whose augmented query names "formative assessment".
C10_FollowUpExample ==
    \A p \in Procs :
        (/\ proc[p].pc = "MEMORY_RESOLVED"
         /\ proc[p].query = QHowDo
         /\ ~proc[p].resolved.memory_recovered
         /\ conversation_memory.thread_id = proc[p].thread
         /\ conversation_history # << >>
         /\ conversation_history[Len(conversation_history)].query = QWhatIs
         /\ conversation_history[Len(conversation_history)].thread = proc[p].thread) =>
            /\ proc[p].resolved.is_follow_up
            /\ Contains(proc[p].resolved.augmented_query, "formative")
            /\ Contains(proc[p].resolved.augmented_query, "assessment")

\* the pipeline states in the order the spec's state machine gives them
StateMachineOrder ==
    {<<"idle", "RECEIVED">>, <<"RECEIVED", "CLASSIFIED">>,
     <<"RECEIVED", "REJECTED">>,
     <<"CLASSIFIED", "CASUAL_SHORT_CIRCUIT">>, <<"CLASSIFIED", "ROUTED">>,
     <<"ROUTED", "MEMORY_RESOLVED">>, <<"MEMORY_RESOLVED", "RETRIEVED">>,
     <<"RETRIEVED", "SYNTHESIZED">>,
     <<"CASUAL_SHORT_CIRCUIT", "idle">>, <<"REJECTED", "idle">>,
     <<"SYNTHESIZED", "idle">>}

\* the pipeline states in the order process_query passes them
PipelineOrder ==
    {<<"idle", "RECEIVED">>, <<"RECEIVED", "CLASSIFIED">>,
     <<"RECEIVED", "REJECTED">>,
     <<"CLASSIFIED", "CASUAL_SHORT_CIRCUIT">>, <<"CLASSIFIED", "MEMORY_RESOLVED">>,
     <<"MEMORY_RESOLVED", "ROUTED">>, <<"ROUTED", "RETRIEVED">>,
     <<"RETRIEVED", "SYNTHESIZED">>,
     <<"CASUAL_SHORT_CIRCUIT", "idle">>, <<"REJECTED", "idle">>,
     <<"SYNTHESIZED", "idle">>}

\* every change of an invocation's state is a pair of the order
MovesAlong(order) ==
    \A p \in Procs :
        proc'[p].pc # proc[p].pc => <<proc[p].pc, proc'[p].pc>> \in order

C12_Cancellation ==
    [][route.aborted /\ route'.aborted =>
          /\ \A p \in Procs :
                /\ proc'[p].vector_calls <= proc[p].vector_calls
                /\ proc'[p].gen_calls <= proc[p].gen_calls
          /\ conversation_history' \in {conversation_history, << >>}]_vars

C14_FailFast ==
    /\ \A p \in Procs :
          proc[p].pc # "idle" /\ Trim(proc[p].query) = << >> =>
              /\ proc[p].pc \in {"RECEIVED", "REJECTED"}
              /\ proc[p].vector_calls = 0
              /\ proc[p].gen_calls = 0
              /\ proc[p].pc = "REJECTED" =>
                    proc[p].result.answer_text = "clarification_request"
    /\ route.pc \in {"fetching", "awaiting_backend"} =>
          Trim(route.query) # << >>

\* the invocation is inside _reset_conversation_memory or reads the history
InMemoryAccess(p) == proc[p].pc \in {"RESET_CLEAR", "RESET_ADOPT", "RESET_DONE"}

\* C15: two parallel invocations with the same thread_id are never both
\* inside their access to the conversation memory, and once both have
\* recorded, the history holds an entry for each of them.
C15_SerializedPerThread ==
    \A p \in Procs : \A r \in Procs \ {p} :
        proc[p].thread = proc[r].thread =>
            /\ ~(InMemoryAccess(p) /\ InMemoryAccess(r))
            /\ proc[p].pc = "RECORDED" /\ proc[r].pc = "RECORDED" =>
                  Cardinality({i \in 1..Len(conversation_history) :
                      conversation_history[i].thread = proc[p].thread}) >= 2

\* the next step of the invocation can be taken in the current state
CanProceed(p) ==
    /\ proc[p].pc = "CLASSIFIED" /\ proc[p].casual = "none" =>
          ENABLED ResetCheck(p)
    /\ proc[p].pc = "RESET_CLEAR" => ENABLED ResetClear(p)
    /\ proc[p].pc = "RESET_ADOPT" => ENABLED ResetAdopt(p)
    /\ proc[p].pc = "RESET_DONE" => ENABLED ResolveAfterReset(p)
    /\ proc[p].pc = "MEMORY_RESOLVED" => ENABLED Route(p)
    /\ proc[p].pc = "ROUTED" =>
          /\ \A r \in ConcVectorResponses : ENABLED Retrieve(p, r, TRUE)
          /\ ENABLED RetrieveDegraded(p)
    /\ proc[p].pc = "RETRIEVED" =>
          \A generated \in BOOLEAN : ENABLED Synthesize(p, generated)
    /\ proc[p].pc = "SYNTHESIZED" => ENABLED RecordAndKeep(p)

\* C16: whatever state an invocation on another thread is in (suspended
\* in its vector-search or generation call, or anywhere between its memory
\* access and its record), an invocation can take its resolve, its
\* external calls and its record: no step of it waits for the other thread.
C16_ThreadsProceed ==
    \A p \in Procs : \A r \in Procs \ {p} :
        proc[r].pc # "idle" /\ proc[r].thread # proc[p].thread => CanProceed(p)

C16_Witness ==
    \E p \in Procs : \E r \in Procs \ {p} :
        /\ proc[r].pc = "ROUTED"
        /\ proc[r].thread = "t1"
        /\ proc[p].thread = "t2"
        /\ proc[p].pc = "RECORDED"
        /\ conversation_memory.thread_id = "t2"
        /\ conversation_history # << >>

\* C17: a resolve for a thread id other than the one the slot holds leaves
\* the history empty and the slot owned by the new thread, and resolves the
\* query without any prior topic: the augmented query is the query itself.
\* So after A, B, A the second query on A finds nothing of A's first turn.
C17_ResetOnThreadSwitch ==
    [][\A p \in Procs :
          (/\ proc[p].pc = "CLASSIFIED"
           /\ proc'[p].pc = "MEMORY_RESOLVED"
           /\ conversation_memory.thread_id # proc[p].thread)
          => /\ conversation_history' = << >>
             /\ conversation_memory'.thread_id = proc[p].thread
             /\ proc'[p].resolved.augmented_query = proc[p].query
             /\ proc'[p].resolved.follow_up_context.previous_topic = << >>]_vars

C17_Witness ==
    \E p \in Procs :
        /\ proc[p].pc = "MEMORY_RESOLVED"
        /\ proc[p].thread = "t1"
        /\ proc[p].resolved.reset
        /\ ~proc[p].resolved.memory_recovered
        /\ proc[p].resolved.is_follow_up
        /\ proc[p].resolved.augmented_query = proc[p].query
        /\ conversation_history = << >>
        /\ conversation_memory.thread_id = "t1"

C19_FollowUpDetection ==
    \A p \in Procs :
        Resolved(p) =>
            /\ proc[p].resolved.is_follow_up <=>
                  /\ DetectedPhrases(proc[p].query) # {}
                  /\ ~IsIndependentEducationalQuestion(proc[p].query)
            /\ IsIndependentEducationalQuestion(proc[p].query) =>
                  /\ ~proc[p].resolved.is_follow_up
                  /\ proc[p].resolved.augmented_query = proc[p].query
                  /\ ~proc[p].resolved.follow_up_context.present

C19_Witness ==
    \E p \in Procs :
        /\ proc[p].pc = "MEMORY_RESOLVED"
        /\ proc[p].query = QHowDo
        /\ DetectedPhrases(proc[p].query) # {}
        /\ conversation_history # << >>
        /\ ~proc[p].resolved.is_follow_up
        /\ proc[p].resolved.augmented_query = QHowDo

\* the query matches a casual pattern and an independent question pattern
Overridden(q) ==
    MatchesCasualPattern(q) /\ IsIndependentEducationalQuestion(q)

HighestScore(text) ==
    CHOOSE n \in 0..Len(text) :
        /\ \E i \in 1..Len(Namespaces) : NamespaceScore(Namespaces[i], text) = n
        /\ \A i \in 1..Len(Namespaces) : NamespaceScore(Namespaces[i], text) <= n

\* C22: the namespace of a routed invocation has the highest count of
\* distinct keywords present in the lowercased query; of several namespaces
\* with the highest non-zero count the earliest in the priority order
\* (administrative last) is taken, and when every count is zero the
\* namespace is the default one.
C22_HighestScoreWins ==
    \A p \in Procs :
        Routed(p) =>
            LET text == Lower(proc[p].resolved.augmented_query)
                top == HighestScore(text)
                ns == proc[p].namespace
            IN  /\ top = 0 => ns = DefaultNamespace
                /\ top > 0 =>
                      \E i \in 1..Len(Namespaces) :
                          /\ ns = Namespaces[i]
                          /\ NamespaceScore(ns, text) = top
                          /\ \A j \in 1..(i - 1) :
                                NamespaceScore(Namespaces[j], text) < top
                /\ Namespaces[Len(Namespaces)] = "administrative"

C22_Witness ==
    \E p \in Procs :
        LET text == Lower(proc[p].resolved.augmented_query) IN
        /\ proc[p].pc = "ROUTED"
        /\ NamespaceScore("preschool", text) = 1
        /\ NamespaceScore("administrative", text) = 1
        /\ NamespaceScore("k12", text) = 0
        /\ proc[p].namespace = "preschool"

\* results.matches at or above the primary similarity floor
PrimaryFloorSet(matches) ==
    SelectSeq(matches, LAMBDA chunk : chunk.score >= SIMILARITY_THRESHOLD)

\* the chunks of a retrieval result that are not context expansions
Attributable(chunks) == SelectSeq(chunks, LAMBDA chunk : ~chunk.expansion)

\* C23: when the vector search returned at least one candidate at or above
\* the primary floor, the retrieval result is not empty, and when none of
\* them reaches the educational floor the result holds the whole
\* primary-floor set.
C23_SecondaryFloorRelaxation ==
    \A p \in Procs :
        (/\ proc[p].pc \in {"RETRIEVED", "SYNTHESIZED"}
         /\ ~proc[p].retrieval.degraded
         /\ PrimaryFloorSet(proc[p].matches) # << >>) =>
            /\ proc[p].retrieval.chunks # << >>
            /\ EducationalChunks(proc[p].matches) = << >> =>
                  Attributable(proc[p].retrieval.chunks)
                      = TakeFirst(PrimaryFloorSet(proc[p].matches), MAX_CHUNKS)

ChunkSection(text) ==
    IF text \in {"follow_up_indicator", "previous_topic"} THEN 1
    ELSE IF text = "reasoning_html" THEN 2
    ELSE IF text \in {"word_1", "word_2"} THEN 3
    ELSE IF text \in {"sources_header", "source_title", "source_download"} THEN 4
    ELSE 0

\* the text chunks of out that belong to section n
SectionChunks(out, n) ==
    SelectSeq(out, LAMBDA c : c.type = "0" /\ ChunkSection(c.text) = n)

\* the stream made of a backend answer has ended and was never cancelled
StreamEnded ==
    route.pc = "responded" /\ route.body = "stream" /\ ~route.cancelled

C28_ClosedControllerUntouched ==
    /\ [][(route.pc = "streaming" /\ route.controller # "readable") =>
            /\ route'.out = route.out
            /\ route'.controller = route.controller]_vars
    /\ [](route.cancelled =>
            /\ ~route.stream_caught
            /\ ~route.error_called)

\* C26: every message in the displayed list of the chat view belongs to the
\* session currentSession names, whatever handler calls are in flight.
C26_MessagesOfCurrentSession ==
    \A i \in 1..Len(ui.messages) : ui.messages[i] = ui.currentSession

\* C27: in ChatInterface currentSession is null or the id of a session in
\* the sessions list, whatever handler calls have run and are in flight; a
\* delete of the current session leaves currentSession at the first
\* remaining session or null, and a call whose request failed leaves
\* sessions and currentSession as they were.
C27_CurrentSessionListed ==
    /\ [](ui.currentSession = NoSession
            \/ InSeq(ui.sessions, ui.currentSession))
    /\ [][\A k \in 1..MaxCalls :
            (/\ ui.calls[k].kind = "deleteSession"
             /\ ui.calls[k].pc = "replied"
             /\ ui.calls[k].ok
             /\ ui'.calls[k] # ui.calls[k]
             /\ ui.currentSession = ui.calls[k].sessionId) =>
                ui'.currentSession =
                    IF ui'.sessions = << >> THEN NoSession
                    ELSE ui'.sessions[1]]_vars
    /\ [][\A k \in 1..MaxCalls :
            (/\ ui.calls[k].pc = "replied"
             /\ ~ui.calls[k].ok
             /\ ui'.calls[k] # ui.calls[k]) =>
                /\ ui'.sessions = ui.sessions
                /\ ui'.currentSession = ui.currentSession]_vars

\* C29: in AssistantChatInterface, whenever no send is in flight (isLoading
\* is false) the typing animation is idle: typingStage and
\* animatingReasoning are null, after a send that succeeded and after one
\* whose backend call failed.
C29_TypingIdleWhenNotLoading ==
    ~ui.isLoading =>
        /\ ui.typingStage = "null"
        /\ ui.animatingReasoning = "null"

\* C30: the session route posts the user message only once it holds a
\* session id, which is the first session of a listing that succeeded or
\* the id of a session it created; when no session was listed and the
\* creation fails nothing is posted and the answer is the apology stream
\* with finishReason error.
C30_PostAfterSession ==
    /\ [](\A i \in 1..Len(route.posted) :
            /\ route.posted[i].sessionId # NoSession
            /\ route.posted[i].sessionId = route.sessionId
            /\ route.posted[i].content = route.query
            /\ route.session_source \in {"listed", "created"}
            /\ InSeq(ui.server.sessions, route.sessionId))
    /\ [](Len(route.posted) <= 1)
    /\ [][route'.sessionId # route.sessionId =>
            \/ route'.sessionId = NoSession
            \/ /\ route'.session_source = "listed"
               /\ ui.server.sessions # << >>
               /\ route'.sessionId = ui.server.sessions[1]
            \/ /\ route'.session_source = "created"
               /\ ~InSeq(ui.server.sessions, route'.sessionId)
               /\ ui'.server.sessions[1] = route'.sessionId]_vars
    /\ [][(route.pc = "creating_session" /\ route'.pc # "posting"
           /\ route' # route) =>
            /\ route'.pc = "responded"
            /\ route'.posted = << >>
            /\ route'.status = 200
            /\ route'.out = <<TextChunk(ErrorMessage), FinishChunk("error")>>]_vars
    /\ (route.pc = "creating_session")
          ~> (route.pc = "posting" \/ route.body = "error_stream")

C30_Witness ==
    /\ route.session_source = "created"
    /\ Len(route.posted) = 1
    /\ route.posted[1].sessionId = route.sessionId
    /\ route.body = "stream"

====
